---- MODULE Spec2Model ----
(***************************************************************************)
(* strava-db-syncer: a sync process (strava_db_sync_mongodb_atlas.py) and  *)
(* an HTTP API process (strava_fast_api.py) that share one MongoDB         *)
(* collection, strava_db.activities.                                       *)
(*                                                                         *)
(* The collection is a sequence of documents in natural (insertion) order. *)
(* A document is a function from field names to values, as a Python dict   *)
(* is; Python's None is the string "None".  The twenty-odd fields of an    *)
(* activity are represented by one field of each kind:                     *)
(*   id               the external id                                      *)
(*   name             read with activity['name'] by the sync (KeyError if  *)
(*                    absent), required str of the API schema              *)
(*   distance         read with activity.get(..) by the sync (None if      *)
(*                    absent), required float of the API schema            *)
(*   start_date       parsed to a datetime by the sync, a str in the API   *)
(*   decoded_polyline optional in both                                     *)
(*   raw_data         written by the sync only (as gear, average_cadence)  *)
(*   photos           written by the API only                              *)
(*                                                                         *)
(* A handler of the API is an operator that gives the HTTP status, the     *)
(* response body and the collection it leaves, and an action that applies  *)
(* it to the collection.                                                   *)
(***************************************************************************)
EXTENDS Integers, Sequences, FiniteSets, TLC

VARIABLES
    store,       \* the documents of strava_db.activities, in natural order
    indexed,     \* the unique index on "id" exists (initialize_db, line 50)
    pending,     \* API: bodies of the create requests between lines 101 and 103
    pc,          \* sync: "init", "refresh", "fetch", "save", "sleep", "terminated"
    token,       \* sync: STRAVA_ACCESS_TOKEN
    page,        \* sync: page of sync_activities
    activities,  \* sync: records of the fetched page not yet saved
    requested    \* sync: the requests of this cycle to the activity-list endpoint

vars == <<store, indexed, pending, pc, token, page, activities, requested>>

None == "None"

\* ---------------------------------------------------------------- bounds
MaxDocs == 2
MaxPending == 1
MaxPage == 1
MaxPerPage == 1

\* ------------------------------------------------------ program constants
LimitMin == 1
LimitMax == 1000

Ids == {1, 2}

\* ------------------------------------------------------------- documents
Has(d, f) == f \in DOMAIN d

\* dict.get(key): the value, or None when the key is absent
Get(d, f) == IF Has(d, f) THEN d[f] ELSE None

\* the effect of {"$set": new} on a document: fields of new overwrite,
\* every other field of old stays
SetFields(old, new) ==
    [f \in DOMAIN old \cup DOMAIN new |-> IF f \in DOMAIN new THEN new[f] ELSE old[f]]

\* positions of the documents matching {"id": i}, and the first of them
Matches(s, i) == {k \in 1..Len(s) : s[k]["id"] = i}

FirstMatch(s, i) == CHOOSE k \in Matches(s, i) : \A j \in Matches(s, i) : k <= j

Present(s, i) == Matches(s, i) # {}

\* the unique index on "id" rejects a collection in which two documents
\* carry the same id
UniqueIds(s) == \A k, j \in 1..Len(s) : s[k]["id"] = s[j]["id"] => k = j

RemoveAt(s, k) == [j \in 1..(Len(s) - 1) |-> IF j < k THEN s[j] ELSE s[j + 1]]

ReplaceAt(s, k, d) == [s EXCEPT ![k] = d]

\* ------------------------------------------------------------ timestamps
\* start_date of the upstream record, the datetime strptime makes of it, and
\* the string isoformat() makes of that datetime
StravaDate == "2024-01-01T10:00:00Z"

Strptime(s) == [type |-> "datetime", val |-> "2024-01-01 10:00:00"]

Isoformat(dt) == [type |-> "str", val |-> "2024-01-01T10:00:00"]

StrValue(s) == [type |-> "str", val |-> s]

IsDatetime(v) == v.type = "datetime"

\* ------------------------------------------------------------- polylines
PolylineDecode(p) == IF p = "_p~iF~ps|U" THEN "[(38.5, -120.2)]" ELSE "[]"

\* ------------------------------------------------- upstream activity JSON
\* Records of the activity-list endpoint: a record of a recorded route, and a
\* record of a manual entry, which has no route.
EmptyDict == [f \in {} |-> None]

RouteRecord(i) ==
    [id |-> i, name |-> "Morning Run", distance |-> "5000.0",
     start_date |-> StravaDate, map |-> [summary_polyline |-> "_p~iF~ps|U"]]

ManualRecord(i) ==
    [id |-> i, name |-> "Evening Ride", distance |-> "0.0",
     start_date |-> StravaDate, map |-> [summary_polyline |-> None]]

\* records that lack a key the sync reads with activity[..]
Without(r, f) == [g \in DOMAIN r \ {f} |-> r[g]]

MalformedRecords == {Without(RouteRecord(1), f) : f \in {"id", "name", "start_date"}}

Records ==
    {RouteRecord(i) : i \in Ids} \cup {ManualRecord(i) : i \in Ids} \cup MalformedRecords

\* the pages the endpoint may answer with: 1..MaxPerPage records
Pages == UNION {[1..n -> Records] : n \in 1..MaxPerPage}

\* the status of an answer of the upstream service: success, or not
StatusCodes == {200, 401}

\* the access tokens the token endpoint may hand out
Tokens == {"token-1"}

\* ------------------------------------------ sync: the normalized document
\* activity['id'], activity['name'], activity['start_date'] raise KeyError
\* when the key is absent
TransformFails(r) == ~Has(r, "id") \/ ~Has(r, "name") \/ ~Has(r, "start_date")

ActivityDocument(r) ==
    LET map_data == IF Has(r, "map") THEN r["map"] ELSE EmptyDict
        polyline_data == Get(map_data, "summary_polyline")
        decoded_polyline == IF polyline_data \notin {None, ""}
                            THEN PolylineDecode(polyline_data) ELSE None
    IN  [id |-> r["id"],
         name |-> r["name"],
         distance |-> Get(r, "distance"),
         start_date |-> Strptime(r["start_date"]),
         decoded_polyline |-> decoded_polyline,
         raw_data |-> r]

\* as $setOnInsert would do: a document that exists is left as it is
UpdateOneSetOnInsert(s, i, d) ==
    IF Present(s, i) THEN s ELSE Append(s, SetFields([id |-> i], d))

\* collection.update_one({"id": i}, {"$set": d}, upsert=True)
UpdateOneUpsert(s, i, d) ==
    IF Present(s, i)
    THEN ReplaceAt(s, FirstMatch(s, i), SetFields(s[FirstMatch(s, i)], d))
    ELSE Append(s, SetFields([id |-> i], d))

\* as a sync that mirrors the upstream list would do: the collection is
\* emptied before the record is written
SaveOneMirror(s, r) ==
    IF TransformFails(r) THEN s
    ELSE UpdateOneUpsert(<<>>, r["id"], ActivityDocument(r))

\* the collection after one iteration of the loop of line 96 on record r: a
\* record that cannot be transformed is logged and writes nothing
SaveOne(s, r) ==
    IF TransformFails(r) THEN s
    ELSE UpdateOneUpsert(s, r["id"], ActivityDocument(r))

\* ------------------------------------------------- API: the Activity model
ActivityFields == {"id", "name", "distance", "start_date", "decoded_polyline", "photos"}

RequiredFields == {"id", "name", "distance", "start_date"}

\* request bodies that pass validation; activity.dict() carries every field
\* of the model, the optional ones as None when the body omits them
Body(i) ==
    [id |-> i, name |-> "Lunch Walk", distance |-> "1200.0",
     start_date |-> StrValue("2024-02-02T08:00:00"),
     decoded_polyline |-> None, photos |-> "['p.jpg']"]

Bodies == {Body(i) : i \in Ids}

\* response_model=Activity: the returned dict is validated against the model
\* (a required field that is absent or None, or a start_date that is not a
\* str, fails) and serialized with every field of the model, the unset ones
\* as None; fields outside the model are dropped
ResponseValid(d) ==
    /\ \A f \in RequiredFields : Has(d, f)
    /\ d["name"] # None
    /\ d["distance"] # None
    /\ ~IsDatetime(d["start_date"])

ResponseItem(d) == [f \in ActivityFields |-> Get(d, f)]

\* ------------------------------------------------------------ API: list
\* Query(None, ge=1, le=1000) and Query(0, ge=0); an absent limit is <<>>
LimitValid(limit) == limit = <<>> \/ (limit[1] >= LimitMin /\ limit[1] <= LimitMax)

OffsetValid(offset) == offset >= 0

\* as a skip that is off by one would do
FindSkipLimitOffByOne(s, offset, limit) ==
    LET skipped == SubSeq(s, offset + 2, Len(s))
    IN  IF limit = <<>> THEN skipped
        ELSE SubSeq(skipped, 1, IF limit[1] < Len(skipped) THEN limit[1] ELSE Len(skipped))

\* collection.find().skip(offset), and .limit(limit) when a limit is given
FindSkipLimit(s, offset, limit) ==
    LET skipped == SubSeq(s, offset + 1, Len(s))
    IN  IF limit = <<>> THEN skipped
        ELSE SubSeq(skipped, 1, IF limit[1] < Len(skipped) THEN limit[1] ELSE Len(skipped))

\* the loop of lines 73-83 on one fetched document (a copy of the stored one)
Shape(d, include_polyline) ==
    LET iso == IF Has(d, "start_date") /\ IsDatetime(d["start_date"])
               THEN [d EXCEPT !["start_date"] = Isoformat(d["start_date"])]
               ELSE d
    IN  IF include_polyline THEN iso
        ELSE [f \in DOMAIN iso \ {"decoded_polyline"} |-> iso[f]]

ListResponse(s, offset, limit, include_polyline) ==
    LET found == FindSkipLimit(s, offset, limit)
        shaped == [k \in 1..Len(found) |-> Shape(found[k], include_polyline)]
    IN  IF ~(LimitValid(limit) /\ OffsetValid(offset))
        THEN [status |-> 422, items |-> <<>>, store |-> s]
        ELSE IF \E k \in 1..Len(shaped) : ~ResponseValid(shaped[k])
        THEN [status |-> 500, items |-> <<>>, store |-> s]
        ELSE [status |-> 200, items |-> [k \in 1..Len(shaped) |-> ResponseItem(shaped[k])],
              store |-> s]

ListOffsets == {-1, 0, 1}

ListLimits == {<<>>, <<0>>, <<1>>, <<LimitMax>>, <<LimitMax + 1>>}

get_activities(offset, limit, include_polyline) ==
    /\ store' = ListResponse(store, offset, limit, include_polyline).store
    /\ UNCHANGED <<indexed, pending, pc, token, page, activities, requested>>

\* ------------------------------------------------------- API: get by id
GetResponse(s, i) ==
    IF ~Present(s, i) THEN [status |-> 404, items |-> <<>>, store |-> s]
    ELSE IF ~ResponseValid(s[FirstMatch(s, i)]) THEN [status |-> 500, items |-> <<>>, store |-> s]
    ELSE [status |-> 200, items |-> <<ResponseItem(s[FirstMatch(s, i)])>>, store |-> s]

get_activity(i) ==
    /\ store' = GetResponse(store, i).store
    /\ UNCHANGED <<indexed, pending, pc, token, page, activities, requested>>

\* ----------------------------------------------------------- API: create
\* as create would do without the check of line 101
CreateFindUnchecked(s, b) == [status |-> 0, items |-> <<>>, store |-> s]

\* line 101-102: find_one; status 0 stands for no response yet, the request
\* goes on to line 103
CreateFind(s, b) ==
    IF Present(s, b["id"]) THEN [status |-> 400, items |-> <<>>, store |-> s]
    ELSE [status |-> 0, items |-> <<>>, store |-> s]

\* line 103-104: insert_one; the unique index, when it exists, raises
\* DuplicateKeyError, which no handler maps
CreateInsert(s, unique, b) ==
    IF unique /\ Present(s, b["id"]) THEN [status |-> 500, items |-> <<>>, store |-> s]
    ELSE [status |-> 200, items |-> <<ResponseItem(b)>>, store |-> Append(s, b)]

create_activity_find(b) ==
    /\ store' = CreateFind(store, b).store
    /\ IF CreateFind(store, b).status = 0
       THEN /\ Len(pending) < MaxPending
            /\ pending' = Append(pending, b)
       ELSE pending' = pending
    /\ UNCHANGED <<indexed, pc, token, page, activities, requested>>

create_activity_insert(k) ==
    /\ k \in 1..Len(pending)
    /\ Len(CreateInsert(store, indexed, pending[k]).store) <= MaxDocs
    /\ store' = CreateInsert(store, indexed, pending[k]).store
    /\ pending' = RemoveAt(pending, k)
    /\ UNCHANGED <<indexed, pc, token, page, activities, requested>>

\* ----------------------------------------------------------- API: update
\* as find_one_and_update would do with upsert=True
FindOneAndUpdateUpsert(s, i, b) ==
    IF Present(s, i)
    THEN [store |-> ReplaceAt(s, FirstMatch(s, i), SetFields(s[FirstMatch(s, i)], b)),
          result |-> <<SetFields(s[FirstMatch(s, i)], b)>>]
    ELSE [store |-> Append(s, SetFields([id |-> i], b)),
          result |-> <<SetFields([id |-> i], b)>>]

\* find_one_and_update({"id": i}, {"$set": b}, return_document=True): the
\* first document with id i gets the fields of b and is returned (result is
\* <<>> for Python's None); without a match nothing is written
FindOneAndUpdate(s, i, b) ==
    IF Present(s, i)
    THEN [store |-> ReplaceAt(s, FirstMatch(s, i), SetFields(s[FirstMatch(s, i)], b)),
          result |-> <<SetFields(s[FirstMatch(s, i)], b)>>]
    ELSE [store |-> s, result |-> <<>>]

\* the unique index, when it exists, refuses an id that another document
\* carries (DuplicateKeyError, which no handler maps)
UpdateActivity(s, unique, i, b) ==
    LET updated == FindOneAndUpdate(s, i, b)
    IN  IF unique /\ ~UniqueIds(updated.store)
        THEN [status |-> 500, items |-> <<>>, store |-> s]
        ELSE IF updated.result = <<>>
        THEN [status |-> 404, items |-> <<>>, store |-> updated.store]
        ELSE IF ~ResponseValid(updated.result[1])
        THEN [status |-> 500, items |-> <<>>, store |-> updated.store]
        ELSE [status |-> 200, items |-> <<ResponseItem(updated.result[1])>>,
              store |-> updated.store]

update_activity(i, b) ==
    /\ store' = UpdateActivity(store, indexed, i, b).store
    /\ UNCHANGED <<indexed, pending, pc, token, page, activities, requested>>

\* ----------------------------------------------------------- API: delete
\* delete_one({"id": i}): the first document with id i
DeleteOne(s, i) == IF Present(s, i) THEN RemoveAt(s, FirstMatch(s, i)) ELSE s

DeleteActivity(s, i) ==
    [status |-> IF Len(s) - Len(DeleteOne(s, i)) = 0 THEN 404 ELSE 200,
     items |-> <<>>, store |-> DeleteOne(s, i)]

delete_activity(i) ==
    /\ store' = DeleteActivity(store, i).store
    /\ UNCHANGED <<indexed, pending, pc, token, page, activities, requested>>

\* ------------------------------------------------------ the sync process
\* initialize_db: create_index("id", unique=True).  It raises, and the process
\* ends, when the server cannot be reached or when the collection already
\* holds two documents with one id.
initialize_db(reachable) ==
    /\ pc = "init"
    /\ IF reachable /\ UniqueIds(store)
       THEN indexed' = TRUE /\ pc' = "refresh"
       ELSE indexed' = indexed /\ pc' = "terminated"
    /\ UNCHANGED <<store, pending, token, page, activities, requested>>

\* as refresh_access_token would do without the exit() of line 73: the cycle
\* goes on with the token it had
refresh_access_token_no_exit(status_code, access_token) ==
    /\ pc = "refresh"
    /\ token' = IF status_code = 200 THEN access_token ELSE token
    /\ page' = 1
    /\ pc' = "fetch"
    /\ UNCHANGED <<store, indexed, pending, activities, requested>>

\* as refresh_access_token would do without the global statement of line 57:
\* the returned token is bound to a local name
refresh_access_token_local(status_code, access_token) ==
    /\ pc = "refresh"
    /\ IF status_code = 200
       THEN token' = token /\ page' = 1 /\ pc' = "fetch"
       ELSE token' = token /\ page' = page /\ pc' = "terminated"
    /\ UNCHANGED <<store, indexed, pending, activities, requested>>

\* sync_activities, line 140: refresh_access_token(), then page = 1
refresh_access_token(status_code, access_token) ==
    /\ pc = "refresh"
    /\ IF status_code = 200
       THEN token' = access_token /\ page' = 1 /\ pc' = "fetch"
       ELSE token' = token /\ page' = page /\ pc' = "terminated"
    /\ UNCHANGED <<store, indexed, pending, activities, requested>>

\* the GET of line 81: the page asked for, the bearer token of the header
\* (line 80) and the status of the answer
Request(p, t, status_code) == [page |-> p, token |-> t, status |-> status_code]

\* as fetch_activities would do without the test of line 83
FetchResultAnyStatus(status_code, json) == json

\* fetch_activities: the page on status 200, [] otherwise
FetchResult(status_code, json) == IF status_code = 200 THEN json ELSE <<>>

\* lines 146-150: one fetch; an empty result ends the cycle, and the process
\* sleeps (line 167)
fetch_activities(status_code, json) ==
    /\ pc = "fetch"
    /\ page > MaxPage => json = <<>>
    /\ activities' = FetchResult(status_code, json)
    /\ requested' = Append(requested, Request(page, token, status_code))
    /\ pc' = IF activities' = <<>> THEN "sleep" ELSE "save"
    /\ UNCHANGED <<store, indexed, pending, token, page>>

\* as the loop of line 144 would do without the page += 1 of line 153
save_activities_to_db_same_page ==
    /\ pc = "save"
    /\ activities # <<>>
    /\ LET activity == Head(activities)
       IN  /\ Len(SaveOne(store, activity)) <= MaxDocs
           /\ store' = SaveOne(store, activity)
           /\ IF TransformFails(activity) /\ ~Has(activity, "id")
              THEN /\ activities' = activities
                   /\ pc' = "terminated"
              ELSE /\ activities' = Tail(activities)
                   /\ pc' = IF activities' = <<>> THEN "fetch" ELSE "save"
    /\ UNCHANGED <<indexed, pending, token, page, requested>>

\* save_activities_to_db, one iteration of the loop of line 96 on the first
\* record not yet handled; after the last one, page += 1 (line 153).
\* The except clause of line 131 reads activity['id'] again, so a record
\* without an id ends the process.
save_activities_to_db ==
    /\ pc = "save"
    /\ activities # <<>>
    /\ LET activity == Head(activities)
       IN  /\ Len(SaveOne(store, activity)) <= MaxDocs
           /\ store' = SaveOne(store, activity)
           /\ IF TransformFails(activity) /\ ~Has(activity, "id")
              THEN /\ activities' = activities
                   /\ pc' = "terminated"
              ELSE /\ activities' = Tail(activities)
                   /\ pc' = IF activities' = <<>> THEN "fetch" ELSE "save"
    /\ page' = IF pc' = "fetch" THEN page + 1 ELSE page
    /\ UNCHANGED <<indexed, pending, token, requested>>

\* time.sleep(SYNC_INTERVAL) returns and the next cycle starts (line 165)
sleep ==
    /\ pc = "sleep"
    /\ pc' = "refresh"
    /\ requested' = <<>>
    /\ UNCHANGED <<store, indexed, pending, token, page, activities>>

\* ---------------------------------------------------------- specification
Init ==
    /\ store = <<>>
    /\ indexed = FALSE
    /\ pending = <<>>
    /\ pc = "init"
    /\ token = None
    /\ page = 1
    /\ activities = <<>>
    /\ requested = <<>>

Next ==
    \/ \E reachable \in BOOLEAN : initialize_db(reachable)
    \/ \E status_code \in StatusCodes, access_token \in Tokens :
          refresh_access_token(status_code, access_token)
    \/ \E status_code \in StatusCodes, json \in Pages \cup {<<>>} :
          fetch_activities(status_code, json)
    \/ save_activities_to_db
    \/ sleep
    \/ \E offset \in ListOffsets, limit \in ListLimits, include_polyline \in BOOLEAN :
          get_activities(offset, limit, include_polyline)
    \/ \E i \in Ids : get_activity(i)
    \/ \E b \in Bodies : create_activity_find(b)
    \/ \E k \in 1..MaxPending : create_activity_insert(k)
    \/ \E i \in Ids, b \in Bodies : update_activity(i, b)
    \/ \E i \in Ids : delete_activity(i)

Spec == Init /\ [][Next]_vars

\* the sync process is a running program: a step it can take, it takes; the
\* requests of the API arrive or not
SyncNext ==
    \/ \E reachable \in BOOLEAN : initialize_db(reachable)
    \/ \E status_code \in StatusCodes, access_token \in Tokens :
          refresh_access_token(status_code, access_token)
    \/ \E status_code \in StatusCodes, json \in Pages \cup {<<>>} :
          fetch_activities(status_code, json)
    \/ save_activities_to_db
    \/ sleep

FairSpec == Spec /\ WF_vars(SyncNext)

\* ================================================================ claims
StoredIds(s) == {s[k]["id"] : k \in 1..Len(s)}

\* a step of the sync process that handles one record of the fetched page
SaveStep == pc = "save" /\ activities' = Tail(activities)

\* a step of the sync process, whichever
SyncStep == pc' # pc \/ activities' # activities

ValidLimits == {limit \in ListLimits : LimitValid(limit)}

ValidOffsets == {offset \in ListOffsets : OffsetValid(offset)}

\* C1: in every reachable state no two documents of the collection carry the
\* same external id.
C1_NoTwoDocumentsShareAnId == UniqueIds(store)

\* C2: while the sync process saves, upserting two records with one id, one
\* after the other, leaves exactly one document with that id, every field of
\* the normalized document of the second record holds that record's value,
\* and upserting the first record again right after itself changes nothing.
C2_SecondUpsertWins ==
    pc = "save" =>
        \A r1, r2 \in Records :
            (~TransformFails(r1) /\ ~TransformFails(r2) /\ r1["id"] = r2["id"]) =>
                LET s1 == SaveOne(store, r1)
                    s2 == SaveOne(s1, r2)
                    d2 == ActivityDocument(r2)
                IN  /\ Cardinality(Matches(s2, r2["id"])) = 1
                    /\ \A f \in DOMAIN d2 : s2[FirstMatch(s2, r2["id"])][f] = d2[f]
                    /\ Len(s2) = Len(s1)
                    /\ SaveOne(s1, r1) = s1

\* the sync process is about to upsert a record over the document that an
\* earlier upsert of another record with the same id has written
C2_Witness ==
    /\ pc = "save"
    /\ ~TransformFails(Head(activities))
    /\ \E k \in 1..Len(store) :
          /\ store[k]["id"] = Head(activities)["id"]
          /\ Has(store[k], "raw_data")
          /\ store[k]["raw_data"] # Head(activities)
          /\ store[k]["name"] = store[k]["raw_data"]["name"]

\* C3: when the sync process upserts a record whose id a document already
\* carries, the stored document afterwards is exactly the normalized document
\* of the record; no other field of the prior document survives.
C3_UpsertReplacesWholeDocument ==
    [][(SaveStep /\ ~TransformFails(Head(activities))
          /\ Present(store, Head(activities)["id"]))
        => store'[FirstMatch(store, Head(activities)["id"])]
              = ActivityDocument(Head(activities))]_vars

\* C4: a successful update of id i leaves, for i, a document that holds
\* exactly the fields of the request body.
C4_UpdateReplacesFieldSet ==
    [][\A i \in Ids, b \in Bodies :
          (update_activity(i, b) /\ UpdateActivity(store, indexed, i, b).status = 200)
          => store'[FirstMatch(store, i)] = b]_vars

\* C5: a create whose id a document already carries is answered 400, inserts
\* nothing and leaves every document as it was; a create whose id no document
\* carries when it inserts is answered 200 and appends exactly one document,
\* equal to the body.
C5_CreateConflictInv ==
    \A b \in Bodies :
        /\ Present(store, b["id"]) =>
              /\ CreateFind(store, b).status = 400
              /\ CreateFind(store, b).store = store
        /\ ~Present(store, b["id"]) =>
              /\ CreateFind(store, b).status = 0
              /\ CreateInsert(store, indexed, b).status = 200
              /\ CreateInsert(store, indexed, b).store = Append(store, b)

C5_CreateConflictStep ==
    /\ \A b \in Bodies :
          (create_activity_find(b) /\ Present(store, b["id"]))
          => (store' = store /\ pending' = pending)
    /\ \A k \in 1..Len(pending) :
          (create_activity_insert(k) /\ ~Present(store, pending[k]["id"]))
          => (store' = Append(store, pending[k]) /\ Len(pending') = Len(pending) - 1)

C5_CreateConflict == []C5_CreateConflictInv /\ [][C5_CreateConflictStep]_vars

\* a create has inserted its body, and a create for the id of a document
\* that differs from its body is answered 400
C5_Witness ==
    /\ \E k \in 1..Len(store) : store[k] \in Bodies
    /\ \E b \in Bodies :
          /\ Present(store, b["id"])
          /\ store[FirstMatch(store, b["id"])] # b
          /\ CreateFind(store, b).status = 400

\* C6: no step changes the id of a document that stays in the collection.
C6_IdImmutable ==
    [][Len(store') >= Len(store)
        => \A k \in 1..Len(store) : store'[k]["id"] = store[k]["id"]]_vars

\* C7: an update or a delete addressed at an id that no document carries is
\* answered 404 and leaves the collection as it was; update inserts nothing.
C7_NotFoundInv ==
    \A i \in Ids : ~Present(store, i) =>
        /\ DeleteActivity(store, i).status = 404
        /\ DeleteActivity(store, i).store = store
        /\ \A b \in Bodies :
              /\ UpdateActivity(store, indexed, i, b).status = 404
              /\ UpdateActivity(store, indexed, i, b).store = store

C7_NotFoundStep ==
    \A i \in Ids : ~Present(store, i) =>
        /\ delete_activity(i) => store' = store
        /\ \A b \in Bodies : update_activity(i, b) => store' = store

C7_NotFound == []C7_NotFoundInv /\ [][C7_NotFoundStep]_vars

\* the collection holds documents, none of them with the id that an update
\* and a delete address, and both are answered 404
C7_Witness ==
    /\ store # <<>>
    /\ \E i \in Ids :
          /\ ~Present(store, i)
          /\ UpdateActivity(store, indexed, i, Body(i)).status = 404
          /\ DeleteActivity(store, i).status = 404

C9_PolylineProjection ==
    \A offset \in ValidOffsets, limit \in ValidLimits :
        LET without == ListResponse(store, offset, limit, FALSE)
            with == ListResponse(store, offset, limit, TRUE)
        IN  /\ without.store = store /\ with.store = store
            /\ \A k \in 1..Len(without.items) : ~Has(without.items[k], "decoded_polyline")
            /\ \A k \in 1..Len(with.items) :
                  with.items[k]["decoded_polyline"] = store[offset + k]["decoded_polyline"]

\* C10: a step that leaves the collection with fewer documents is a delete
\* call of the API that is answered 200; every step of the sync process keeps
\* every stored id.
C10_OnlyDeleteRemoves ==
    [][/\ Len(store') < Len(store)
            => \E i \in Ids : delete_activity(i) /\ DeleteActivity(store, i).status = 200
       /\ SyncStep => (StoredIds(store) \subseteq StoredIds(store') /\ Len(store') >= Len(store))
      ]_vars

\* a cycle that listed one record has ended, and the collection still holds
\* a document that an earlier cycle wrote and this cycle did not list
C10_Witness ==
    /\ pc = "sleep"
    /\ page = 2
    /\ Len(store) = 2
    /\ \A k \in 1..2 : Has(store[k], "raw_data") /\ store[k]["raw_data"]["id"] = store[k]["id"]

\* C11: a token refresh that is answered with a non-success status ends the
\* process: the token stays as it was, and from then on the sync process
\* takes no step (no page is requested, no record saved, no cycle started).
\* A refresh that is answered with success stores the returned token and
\* moves on to the fetch of page 1; no page of the cycle is requested before.
C11_RefreshInv == pc = "refresh" => requested = <<>>

C11_RefreshStep ==
    /\ \A status_code \in StatusCodes, access_token \in Tokens :
          refresh_access_token(status_code, access_token) =>
              IF status_code = 200
              THEN token' = access_token /\ pc' = "fetch" /\ page' = 1 /\ requested' = <<>>
              ELSE token' = token /\ pc' = "terminated" /\ store' = store
    /\ pc = "terminated" =>
          /\ pc' = "terminated" /\ token' = token /\ requested' = requested
          /\ page' = page /\ activities' = activities /\ indexed' = indexed

C11_RefreshFailureTerminates == []C11_RefreshInv /\ [][C11_RefreshStep]_vars

\* the refresh of a later cycle has failed: the process has ended with the
\* token of the cycle before, without a request, and the collection holds
\* what the earlier cycle saved
C11_Witness ==
    /\ pc = "terminated"
    /\ token \in Tokens
    /\ requested = <<>>
    /\ \E k \in 1..Len(store) : Has(store[k], "raw_data")

\* C12: the requests of a cycle ask for the pages 1, 2, 3, ... in this order,
\* each once; a page is requested only when every record of the page before
\* has gone through the upsert step; and after a request that brings no
\* record the cycle requests no further page.
C12_PagesInv ==
    /\ \A k \in 1..Len(requested) : requested[k].page = k
    /\ pc = "fetch" => (Len(requested) = page - 1 /\ activities = <<>>)
    /\ pc = "save" => (Len(requested) = page /\ activities # <<>>)
    /\ pc = "sleep" => (Len(requested) = page /\ activities = <<>>)

C12_PagesStep ==
    /\ (pc = "fetch" /\ pc' # pc) =>
          /\ Len(requested') = Len(requested) + 1
          /\ requested'[Len(requested')].page = page
          /\ pc' = IF activities' = <<>> THEN "sleep" ELSE "save"
    /\ (pc = "save" /\ pc' = "save" /\ activities' # activities) =>
          activities' = Tail(activities)
    /\ (pc = "save" /\ pc' = "fetch") =>
          (Len(activities) = 1 /\ page' = page + 1)
    /\ requested' # requested =>
          (pc = "fetch" \/ (pc = "sleep" /\ pc' = "refresh" /\ requested' = <<>>))

C13_FetchFailureInv ==
    /\ \A status_code \in StatusCodes \ {200}, json \in Pages \cup {<<>>} :
          FetchResult(status_code, json) = <<>>
    /\ \A k \in 1..Len(requested) :
          requested[k].status # 200 => (k = Len(requested) /\ pc = "sleep")

C13_FetchFailureStep ==
    /\ \A status_code \in StatusCodes \ {200}, json \in Pages \cup {<<>>} :
          fetch_activities(status_code, json) =>
              /\ activities' = <<>>
              /\ pc' = "sleep"
              /\ store' = store
              /\ page' = page
              /\ requested' = Append(requested, Request(page, token, status_code))
    /\ (pc = "sleep" /\ pc' # pc) => pc' = "refresh"

C13_FetchFailureIsEmptyPage == []C13_FetchFailureInv /\ [][C13_FetchFailureStep]_vars

\* page 1 was fetched and saved, the fetch of page 2 was answered with a
\* non-success status, and the process sleeps with the saved document in
\* the collection
C13_Witness ==
    /\ pc = "sleep"
    /\ Len(requested) = 2
    /\ requested[1].status = 200
    /\ requested[2].status # 200
    /\ \E k \in 1..Len(store) : Has(store[k], "raw_data")

\* C14: the step of the sync process on a record that cannot be transformed
\* writes nothing, passes on to the next record of the page, or to the fetch of
\* the next page after the last record, and does not end the process.
C14_RecordFailureSkipped ==
    [][(pc = "save" /\ SyncStep /\ TransformFails(Head(activities))) =>
          /\ store' = store
          /\ activities' = Tail(activities)
          /\ pc' = IF activities' = <<>> THEN "fetch" ELSE "save"]_vars

\* C15: the only steps that end the sync process are the failure of a token
\* refresh and the failure of the startup; no step of the fetch of a page or
\* of the saving of a record ends it.
C15_OnlyRefreshOrStartupTerminates ==
    [][(pc' = "terminated" /\ pc # "terminated") => pc \in {"init", "refresh"}]_vars

\* C16: for every create that has passed its existence check and has not yet
\* inserted, whatever the other requests and the sync process have done in
\* between, the insert is answered with success or with 400, and it does not
\* bring the collection to two documents with the id of the body.
C16_CreateInterleaving ==
    \A k \in 1..Len(pending) :
        LET r == CreateInsert(store, indexed, pending[k])
            i == pending[k]["id"]
        IN  /\ r.status \in {200, 400}
            /\ Cardinality(Matches(store, i)) <= 1 => Cardinality(Matches(r.store, i)) <= 1

\* C17: for every document the sync process has written, with start_date
\* stored as a timestamp, the list, the get by id and the update are answered
\* 200 with start_date as a string.
C17_DatesRendered ==
    \A k \in 1..Len(store) :
        (Has(store[k], "raw_data") /\ IsDatetime(store[k]["start_date"])) =>
            LET i == store[k]["id"]
                listed == ListResponse(store, k - 1, <<1>>, TRUE)
                updated == UpdateActivity(store, indexed, i, Body(i))
                got == GetResponse(store, i)
            IN  /\ listed.status = 200
                /\ ~IsDatetime(listed.items[1]["start_date"])
                /\ updated.status = 200
                /\ ~IsDatetime(updated.items[1]["start_date"])
                /\ got.status = 200
                /\ ~IsDatetime(got.items[1]["start_date"])

\* C18: the token is absent only while no refresh has succeeded; every
\* request of a page carries a token, the one the process holds, and the
\* token changes only in the step of a successful refresh, which comes before
\* the first request of its cycle.
C18_TokenInv ==
    /\ \A k \in 1..Len(requested) :
          requested[k].token # None /\ requested[k].token = token
    /\ pc \in {"fetch", "save", "sleep"} => token \in Tokens
    /\ token = None => (requested = <<>> /\ pc \in {"init", "refresh", "terminated"})

C18_TokenStep ==
    /\ token' # token => (pc = "refresh" /\ pc' = "fetch" /\ requested' = <<>>)
    /\ (pc = "refresh" /\ pc' = "fetch") => token' \in Tokens

C19_CycleReachesSleep == (pc = "fetch") ~> (pc = "sleep")

====
